---- MODULE Spec2Model ----
(***************************************************************************)
(* Model of the namespace period checker of the virtualcluster syncer      *)
(* (pkg/syncer/resources/namespace/checker.go).                            *)
(*                                                                         *)
(* The checker goroutine (StartPeriodChecker) waits for the namespace      *)
(* informer cache to sync and then runs checkNamespaces periodically.  A   *)
(* cycle fans checkNamespacesOfTenantCluster out over the registered       *)
(* tenant clusters, joins them on a WaitGroup, and then scans the super    *)
(* master namespaces for orphans, deleting them with a UID precondition.   *)
(*                                                                         *)
(* The tenant masters, the super master and the tenant registry are        *)
(* collaborators: they are modelled by the stores vstore, pstore and       *)
(* tenants, which the environment changes between any two steps of the     *)
(* checker, and by calls that may fail.                                    *)
(***************************************************************************)
EXTENDS Naturals, Sequences, FiniteSets

\* Bounds of the model.
MaxEnv == 1       \* store mutations made by the environment in one run
MaxCycles == 2    \* check cycles started in one run
MaxFaults == 1    \* collaborator calls that fail with an unexpected error in one run

Tenants == {"t1", "t2"}
VKeys == {<<"t1", "n1">>, <<"t1", "n2">>, <<"t2", "n1">>}

\* UIDs are never reused: <<"v", i>> for tenant namespaces, <<"p", i>> for
\* super master namespaces.  A missing annotation reads as the empty string.
NoUID == <<>>
StaleUID == <<"v", 0>>

VARIABLES
    pc,            \* position of the checker goroutine in StartPeriodChecker / checkNamespaces
    ret,           \* what StartPeriodChecker returned: "none", "error", "nil"
    stopCh,        \* TRUE once stopCh is closed
    nsSynced,      \* TRUE once the namespace informer reports HasSynced
    tenants,       \* registered tenant clusters (GetClusterNames)
    vstore,        \* tenant masters: <<cluster, name>> -> UID of the vNamespace
    pstore,        \* super master: name -> pNamespace
    nextUID,       \* next fresh UID
    clusterNames,  \* checkNamespaces: the cluster names read at the start of the cycle
    toSpawn,       \* checkNamespaces: cluster names the spawn loop has not reached
    wg,            \* checkNamespaces: sync.WaitGroup counter
    tpc,           \* per tenant goroutine: "none", "list", "loop", "done"
    vList,         \* per tenant goroutine: namespaceList.Items not yet visited
    pNamespaces,   \* checkNamespaces: listed pNamespaces not yet visited
    cur,           \* checkNamespaces: the pNamespace with shouldDelete set, as a set of <= 1
    numDeleted,    \* CheckerRemedyStats numDeletedOrphanSuperMasterNamespaces
    numRequeued,   \* CheckerRemedyStats numRequeuedTenantNamespaces
    active,        \* executions of checkNamespaces in progress
    cycles,        \* cycles started
    envLeft,       \* store mutations the environment may still make
    faultsLeft,    \* collaborator calls that may still fail with an unexpected error
    touched,       \* the environment changed a store or the registry since the cycle started
    listFail,      \* tenants whose List failed in this cycle
    plistFail,     \* the nsLister.List of this cycle failed
    pListed,       \* the pNamespaces the nsLister.List of this cycle returned
    tlog,          \* the tenant scans' iterations of this cycle and what followed
    olog,          \* the orphan scan's iterations of this cycle and what followed
    reqCalls,      \* RequeueObject calls of this cycle, per <<cluster, vNamespace name>>
    delCalls       \* Delete calls of this cycle, per pNamespace name

stores == <<tenants, vstore, pstore, nextUID, envLeft>>
faults == <<faultsLeft>>
cycleVars == <<clusterNames, toSpawn, wg, tpc, vList, pNamespaces, cur>>
counters == <<numDeleted, numRequeued>>
ghosts == <<listFail, plistFail, pListed, tlog, olog, reqCalls, delCalls>>
vars == <<pc, ret, stopCh, nsSynced, tenants, vstore, pstore, nextUID, clusterNames,
          toSpawn, wg, tpc, vList, pNamespaces, cur, numDeleted, numRequeued, active,
          cycles, envLeft, faultsLeft, touched, listFail, plistFail, pListed, tlog, olog,
          reqCalls, delCalls>>

(***************************************************************************)
(* conversion helpers                                                      *)
(***************************************************************************)
ToSuperMasterNamespace(cluster, ns) == cluster \o "-" \o ns

GetVirtualOwner(p) == <<p.LabelCluster, p.LabelNamespace>>

PNames == {ToSuperMasterNamespace(k[1], k[2]) : k \in VKeys}

VNamespace(k) == [cluster |-> k[1], Name |-> k[2], UID |-> vstore[k]]

PNamespace(name, uid, cluster, ns, duid) ==
    [Name |-> name, UID |-> uid, LabelCluster |-> cluster,
     LabelNamespace |-> ns, LabelUID |-> duid]

Range(f) == {f[x] : x \in DOMAIN f}

\* f with x removed from its domain
Without(f, x) == [y \in DOMAIN f \ {x} |-> f[y]]

\* f with x mapped to v
With(f, x, v) == [y \in DOMAIN f \cup {x} |-> IF y = x THEN v ELSE f[y]]

(***************************************************************************)
(* Collaborators                                                           *)
(***************************************************************************)
\* {TRUE} while a call may still fail with an unexpected error, else {}
MayFail == {x \in {TRUE} : faultsLeft > 0}

\* the budget after a call that returned err
Spend(err) == IF err = "Other" THEN faultsLeft - 1 ELSE faultsLeft

\* nsLister.Get(name): the pNamespace, NotFound, or another error.  obj is nil
\* (the empty sequence) whenever err is not nil.
NsListerGet(name) ==
    (IF name \in DOMAIN pstore
        THEN {[err |-> "nil", obj |-> <<pstore[name]>>]}
        ELSE {[err |-> "NotFound", obj |-> <<>>]})
    \cup {[err |-> "Other", obj |-> <<>>] : x \in MayFail}

\* nsLister.List(labels.Everything())
NsListerList ==
    {[err |-> "nil", items |-> Range(pstore)]} \cup {[err |-> "Other", items |-> {}] : x \in MayFail}

\* multiClusterNamespaceController.Get(clusterName, "", vNamespace)
MultiClusterGet(cluster, ns) ==
    (IF <<cluster, ns>> \in DOMAIN vstore
        THEN {[err |-> "nil", obj |-> <<VNamespace(<<cluster, ns>>)>>]}
        ELSE {[err |-> "NotFound", obj |-> <<>>]})
    \cup {[err |-> "Other", obj |-> <<>>] : x \in MayFail}

\* multiClusterNamespaceController.List(clusterName)
MultiClusterList(cluster) ==
    {[err |-> "nil", items |-> {VNamespace(k) : k \in {j \in DOMAIN vstore : j[1] = cluster}}]}
    \cup {[err |-> "Other", items |-> {}] : x \in MayFail}

\* namespaceClient.Namespaces().Delete(name, opts) on the super master: the
\* results it can return and the store each leaves.  preUID is the UID of
\* opts.Preconditions, NoUID when opts carries none.
ApiDelete(name, preUID) ==
    (IF name \notin DOMAIN pstore
        THEN {[err |-> "NotFound", store |-> pstore]}
        ELSE IF preUID # NoUID /\ pstore[name].UID # preUID
            THEN {[err |-> "Conflict", store |-> pstore]}
            ELSE {[err |-> "nil", store |-> Without(pstore, name)]})
    \cup {[err |-> "Other", store |-> pstore] : x \in MayFail}

(***************************************************************************)
(* Initial state                                                           *)
(***************************************************************************)
KeyIndex(k) == IF k = <<"t1", "n1">> THEN 1 ELSE IF k = <<"t1", "n2">> THEN 2 ELSE 3

\* What the stores may hold for one key when the checker is constructed:
\* nothing, a vNamespace alone, a pNamespace alone, or both, the pNamespace
\* carrying the UID of the vNamespace or that of an earlier one.  The super
\* master also holds a namespace of its own, "default", with no annotations.
InitKinds == {"none", "missing", "orphan", "synced", "stale"}

InitV(kind) == {k \in VKeys : kind[k] \in {"missing", "synced", "stale"}}
InitP(kind) == {k \in VKeys : kind[k] \in {"orphan", "synced", "stale"}}

InitStores ==
    {[k \in VKeys |-> IF k = <<"t1", "n1">> THEN "missing"
                      ELSE IF k = <<"t1", "n2">> THEN "stale" ELSE "orphan"]}

InitTenants == {{}, Tenants}

Init ==
    /\ pc = "init"
    /\ ret = "none"
    /\ stopCh = FALSE
    /\ nsSynced = FALSE
    /\ tenants \in InitTenants
    /\ \E kind \in InitStores :
        /\ vstore = [k \in InitV(kind) |-> <<"v", KeyIndex(k)>>]
        /\ pstore = [n \in {ToSuperMasterNamespace(k[1], k[2]) : k \in InitP(kind)}
                              \cup {"default"} |->
                        IF n = "default" THEN PNamespace(n, <<"p", 0>>, "", "", NoUID) ELSE
                        LET k == CHOOSE j \in InitP(kind) : ToSuperMasterNamespace(j[1], j[2]) = n
                        IN PNamespace(n, <<"p", KeyIndex(k)>>, k[1], k[2],
                                      IF kind[k] = "synced" THEN <<"v", KeyIndex(k)>> ELSE StaleUID)]
    /\ nextUID = Cardinality(VKeys) + 1
    /\ clusterNames = {}
    /\ toSpawn = {}
    /\ wg = 0
    /\ tpc = [t \in Tenants |-> "none"]
    /\ vList = [t \in Tenants |-> {}]
    /\ pNamespaces = {}
    /\ cur = {}
    /\ numDeleted = 0
    /\ numRequeued = 0
    /\ active = 0
    /\ cycles = 0
    /\ envLeft = MaxEnv
    /\ faultsLeft = MaxFaults
    /\ touched = FALSE
    /\ listFail = {}
    /\ plistFail = FALSE
    /\ pListed = {}
    /\ tlog = {}
    /\ olog = {}
    /\ reqCalls = <<>>
    /\ delCalls = <<>>

(***************************************************************************)
(* Environment: the tenant masters, the syncer's event-driven path and     *)
(* operators change the stores and the registry at any time.               *)
(***************************************************************************)
Alive == pc \notin {"exit", "crashed"}

InCycle == pc \in {"GetClusterNames", "spawn", "wait", "list", "loop", "delete"}

EnvStep == envLeft > 0 /\ envLeft' = envLeft - 1 /\ touched' = TRUE

\* The registry is read only by GetClusterNames: a change made earlier is seen
\* exactly as the same change made right before that read.
RegistryStep == pc = "GetClusterNames" /\ EnvStep

\* The stores are first read by the tenant scans: a change made between two
\* cycles or before the goroutines are spawned is seen exactly as the same
\* change made before the first step of a tenant scan.
StoreStep == pc \in {"wait", "list", "loop", "delete"} /\ EnvStep

AddTenant(t) ==
    /\ RegistryStep
    /\ t \notin tenants
    /\ tenants' = tenants \cup {t}
    /\ UNCHANGED <<pc, ret, stopCh, nsSynced, vstore, pstore, nextUID, cycleVars,
                   counters, active, cycles, faults, ghosts>>

RemoveTenant(t) ==
    /\ RegistryStep
    /\ t \in tenants
    /\ tenants' = tenants \ {t}
    /\ UNCHANGED <<pc, ret, stopCh, nsSynced, vstore, pstore, nextUID, cycleVars,
                   counters, active, cycles, faults, ghosts>>

CreateVirtual(k) ==
    /\ StoreStep
    /\ k \notin DOMAIN vstore
    /\ vstore' = With(vstore, k, <<"v", nextUID>>)
    /\ nextUID' = nextUID + 1
    /\ UNCHANGED <<pc, ret, stopCh, nsSynced, tenants, pstore, cycleVars,
                   counters, active, cycles, faults, ghosts>>

DeleteVirtual(k) ==
    /\ StoreStep
    /\ k \in DOMAIN vstore
    /\ vstore' = Without(vstore, k)
    /\ UNCHANGED <<pc, ret, stopCh, nsSynced, tenants, pstore, nextUID, cycleVars,
                   counters, active, cycles, faults, ghosts>>

\* A pNamespace appears under the name derived from k: created by the syncer
\* for the vNamespace (owner annotations, the UID of the vNamespace as the
\* delegated UID, a stale one when the vNamespace is gone), or by someone else
\* with the cluster annotation only.
CreatePhysical(k, owner) ==
    /\ StoreStep
    /\ ToSuperMasterNamespace(k[1], k[2]) \notin DOMAIN pstore
    /\ \E duid \in IF owner # "full" THEN {NoUID}
                   ELSE IF k \in DOMAIN vstore THEN {vstore[k]} ELSE {StaleUID} :
        pstore' = With(pstore, ToSuperMasterNamespace(k[1], k[2]),
                       PNamespace(ToSuperMasterNamespace(k[1], k[2]), <<"p", nextUID>>,
                                  k[1],
                                  IF owner = "full" THEN k[2] ELSE "",
                                  duid))
    /\ nextUID' = nextUID + 1
    /\ UNCHANGED <<pc, ret, stopCh, nsSynced, tenants, vstore, cycleVars,
                   counters, active, cycles, faults, ghosts>>

DeletePhysical(n) ==
    /\ StoreStep
    /\ n \in DOMAIN pstore
    /\ pstore' = Without(pstore, n)
    /\ UNCHANGED <<pc, ret, stopCh, nsSynced, tenants, vstore, nextUID, cycleVars,
                   counters, active, cycles, faults, ghosts>>

\* The pNamespace n is deleted and created again with the same annotations:
\* another object under the same name, with a UID of its own.
RecreatePhysical(n) ==
    /\ StoreStep
    /\ n \in DOMAIN pstore
    /\ pstore' = [pstore EXCEPT ![n].UID = <<"p", nextUID>>]
    /\ nextUID' = nextUID + 1
    /\ UNCHANGED <<pc, ret, stopCh, nsSynced, tenants, vstore, cycleVars,
                   counters, active, cycles, faults, ghosts>>

\* The informer finishes its initial list; informers stop with stopCh.
CacheSync ==
    /\ ~nsSynced /\ ~stopCh
    /\ nsSynced' = TRUE
    /\ UNCHANGED <<pc, ret, stopCh, stores, cycleVars, counters, active, cycles,
                   touched, faults, ghosts>>

CloseStopCh ==
    /\ ~stopCh
    /\ Alive
    /\ stopCh' = TRUE
    /\ UNCHANGED <<pc, ret, nsSynced, stores, cycleVars, counters, active, cycles,
                   touched, faults, ghosts>>

(***************************************************************************)
(* StartPeriodChecker                                                      *)
(***************************************************************************)
\* The checker goroutine is started.
Start ==
    /\ pc = "init"
    /\ pc' = "sync"
    /\ UNCHANGED <<ret, stopCh, nsSynced, stores, cycleVars, counters, active, cycles,
                   touched, faults, ghosts>>

\* cache.WaitForCacheSync(stopCh, c.nsSynced): true once the cache has synced,
\* false once stopCh is closed.
WaitForCacheSync == IF nsSynced THEN {TRUE} \cup (IF stopCh THEN {FALSE} ELSE {})
                    ELSE IF stopCh THEN {FALSE} ELSE {}

\* the result of WaitForCacheSync ignored
SyncReturns_IgnoreResult ==
    /\ pc = "sync"
    /\ WaitForCacheSync # {}
    /\ pc' = "top"
    /\ UNCHANGED <<ret, stopCh, nsSynced, stores, cycleVars, counters, active, cycles,
                   touched, faults, ghosts>>

SyncReturns ==
    /\ pc = "sync"
    /\ \E ok \in WaitForCacheSync :
        IF ok THEN pc' = "top" /\ ret' = ret
              ELSE pc' = "exit" /\ ret' = "error"
    /\ UNCHANGED <<stopCh, nsSynced, stores, cycleVars, counters, active, cycles,
                   touched, faults, ghosts>>

\* wait.Until, top of the loop: return if stopCh is closed, else call
\* c.checkNamespaces.
UntilStopped ==
    /\ pc = "top"
    /\ stopCh
    /\ pc' = "exit"
    /\ ret' = "nil"
    /\ UNCHANGED <<stopCh, nsSynced, stores, cycleVars, counters, active, cycles,
                   touched, faults, ghosts>>

\* wait.Until without the check of stopCh at the top of the loop
UntilMayCall_IgnoreStop == pc = "top"

UntilMayCall == pc = "top" /\ ~stopCh

UntilCall ==
    /\ UntilMayCall
    /\ cycles < MaxCycles
    /\ pc' = "GetClusterNames"
    /\ active' = active + 1
    /\ cycles' = cycles + 1
    /\ touched' = FALSE
    /\ clusterNames' = {}
    /\ toSpawn' = {}
    /\ tpc' = [t \in Tenants |-> "none"]
    /\ vList' = [t \in Tenants |-> {}]
    /\ pNamespaces' = {}
    /\ cur' = {}
    /\ listFail' = {}
    /\ plistFail' = FALSE
    /\ pListed' = {}
    /\ tlog' = {}
    /\ olog' = {}
    /\ reqCalls' = <<>>
    /\ delCalls' = <<>>
    /\ UNCHANGED <<ret, stopCh, nsSynced, stores, wg, counters, faults>>

\* a timer that is not reset after f returned: it fires while f runs
UntilTick_NonSliding ==
    /\ pc \in {"timer", "wait", "loop"}
    /\ pc' = "top"
    /\ UNCHANGED <<ret, stopCh, nsSynced, stores, cycleVars, counters, active, cycles,
                   touched, faults, ghosts>>

\* wait.Until, after f returned: the timer is reset and the loop waits for the
\* timer or for stopCh.
UntilTick ==
    /\ pc = "timer"
    /\ pc' = "top"
    /\ UNCHANGED <<ret, stopCh, nsSynced, stores, cycleVars, counters, active, cycles,
                   touched, faults, ghosts>>

UntilStoppedInWait ==
    /\ pc = "timer"
    /\ stopCh
    /\ pc' = "exit"
    /\ ret' = "nil"
    /\ UNCHANGED <<stopCh, nsSynced, stores, cycleVars, counters, active, cycles,
                   touched, faults, ghosts>>

(***************************************************************************)
(* checkNamespaces                                                         *)
(***************************************************************************)
\* checkNamespaces without the early return
NoClusters_Never(names) == FALSE

\* len(clusterNames) == 0
NoClusters(names) == names = {}

GetClusterNames ==
    /\ pc = "GetClusterNames"
    /\ clusterNames' = tenants
    /\ IF NoClusters(tenants)
          THEN pc' = "return" /\ toSpawn' = {}
          ELSE pc' = "spawn" /\ toSpawn' = tenants
    /\ UNCHANGED <<ret, stopCh, nsSynced, stores, wg, tpc, vList, pNamespaces, cur,
                   counters, active, cycles, touched, faults, ghosts>>

\* The spawn loop: wg.Add(1) and go func(clusterName) for every cluster name.
\* A goroutine that runs before the loop is over is one that is spawned here
\* and scheduled first.
Spawn ==
    /\ pc = "spawn"
    /\ wg' = wg + Cardinality(toSpawn)
    /\ tpc' = [t \in Tenants |-> IF t \in toSpawn THEN "list" ELSE tpc[t]]
    /\ toSpawn' = {}
    /\ pc' = "wait"
    /\ UNCHANGED <<ret, stopCh, nsSynced, stores, clusterNames, vList, pNamespaces, cur,
                   counters, active, cycles, touched, faults, ghosts>>

\* no wg.Wait()
WaitGroupDone_NoWait == TRUE

\* wg.Wait() returns
WaitGroupDone == wg = 0

Wait ==
    /\ pc = "wait"
    /\ WaitGroupDone
    /\ pc' = "list"
    /\ UNCHANGED <<ret, stopCh, nsSynced, stores, cycleVars, counters, active, cycles,
                   touched, faults, ghosts>>

\* ListPNamespaces going on to the loop after a failed List
ListPNamespaces_IgnoreError ==
    /\ pc = "list"
    /\ \E l \in NsListerList :
        /\ faultsLeft' = Spend(l.err)
        /\ pNamespaces' = Range(pstore)
        /\ pListed' = Range(pstore)
        /\ pc' = "loop"
        /\ plistFail' = (l.err # "nil")
    /\ UNCHANGED <<ret, stopCh, nsSynced, stores, clusterNames, toSpawn, wg, tpc, vList, cur,
                   counters, active, cycles, touched, listFail, tlog, olog, reqCalls, delCalls>>

\* c.nsLister.List(labels.Everything())
ListPNamespaces ==
    /\ pc = "list"
    /\ \E l \in NsListerList :
        /\ faultsLeft' = Spend(l.err)
        /\ IF l.err = "nil"
              THEN /\ pNamespaces' = l.items
                   /\ pListed' = l.items
                   /\ pc' = "loop"
                   /\ UNCHANGED plistFail
              ELSE /\ plistFail' = TRUE
                   /\ pc' = "return"
                   /\ UNCHANGED <<pNamespaces, pListed>>
    /\ UNCHANGED <<ret, stopCh, nsSynced, stores, clusterNames, toSpawn, wg, tpc, vList, cur,
                   counters, active, cycles, touched, listFail, tlog, olog, reqCalls, delCalls>>

OwnerMissing(owner) == owner[1] = "" \/ owner[2] = ""

\* ShouldDelete without the NotFound case
ShouldDelete_NoNotFound(p, r) == r.err = "nil" /\ p.LabelUID # r.obj[1].UID

\* ShouldDelete without the comparison of the UIDs
ShouldDelete_NoMismatch(p, r) == r.err = "NotFound"

\* ShouldDelete set on every failed lookup
ShouldDelete_AnyError(p, r) ==
    \/ r.err # "nil"
    \/ r.err = "nil" /\ p.LabelUID # r.obj[1].UID

\* shouldDelete after the lookup r of the owner of p
ShouldDelete(p, r) ==
    \/ r.err = "NotFound"
    \/ r.err = "nil" /\ p.LabelUID # r.obj[1].UID

LookupResult(p, r) ==
    IF r.err = "NotFound" THEN "notfound"
    ELSE IF r.err # "nil" THEN "error"
    ELSE IF p.LabelUID # r.obj[1].UID THEN "mismatch" ELSE "match"

\* One iteration of the loop over pNamespaces, up to the Delete call.
OrphanLookup(p) ==
    /\ pc = "loop"
    /\ p \in pNamespaces
    /\ pNamespaces' = pNamespaces \ {p}
    /\ IF OwnerMissing(GetVirtualOwner(p))
          THEN /\ olog' = olog \cup {[p |-> p, res |-> "skip", del |-> "none", pre |-> NoUID]}
               /\ UNCHANGED <<pc, cur, faultsLeft>>
          ELSE \E r \in MultiClusterGet(GetVirtualOwner(p)[1], GetVirtualOwner(p)[2]) :
               /\ faultsLeft' = Spend(r.err)
               /\ IF ShouldDelete(p, r)
                     THEN /\ cur' = {p}
                          /\ pc' = "delete"
                          /\ olog' = olog \cup {[p |-> p, res |-> LookupResult(p, r),
                                                   del |-> "pending", pre |-> NoUID]}
                     ELSE /\ olog' = olog \cup {[p |-> p, res |-> LookupResult(p, r),
                                                   del |-> "none", pre |-> NoUID]}
                          /\ UNCHANGED <<pc, cur>>
    /\ UNCHANGED <<ret, stopCh, nsSynced, stores, clusterNames, toSpawn, wg, tpc, vList,
                   counters, active, cycles, touched, listFail, plistFail, pListed, tlog,
                   reqCalls, delCalls>>

\* calls counted so far for x
Calls(f, x) == IF x \in DOMAIN f THEN f[x] ELSE 0

\* DeleteOptions without Preconditions
Preconditions_None(p) == NoUID

\* the precondition taken from the delegated UID annotation
Preconditions_Delegated(p) == p.LabelUID

\* metav1.NewUIDPreconditions(string(pNamespace.UID))
Preconditions(p) == p.UID

\* OrphanDelete calling Delete again when it returned an error
OrphanDelete_Retry(p) ==
    /\ pc = "delete"
    /\ p \in cur
    /\ \E d \in ApiDelete(p.Name, Preconditions(p)) :
        /\ faultsLeft' = Spend(d.err)
        /\ pstore' = d.store
        /\ numDeleted' = IF d.err = "nil" THEN numDeleted + 1 ELSE numDeleted
        /\ IF d.err = "nil" \/ Calls(delCalls, p.Name) >= 1
              THEN /\ olog' = {IF e.p = p /\ e.del = "pending"
                                   THEN [e EXCEPT !.del = d.err, !.pre = Preconditions(p)]
                                   ELSE e : e \in olog}
                   /\ cur' = {}
                   /\ pc' = "loop"
              ELSE UNCHANGED <<olog, cur, pc>>
    /\ delCalls' = With(delCalls, p.Name, Calls(delCalls, p.Name) + 1)
    /\ UNCHANGED <<ret, stopCh, nsSynced, tenants, vstore, nextUID, envLeft, clusterNames,
                   toSpawn, wg, tpc, vList, pNamespaces, numRequeued, active, cycles, touched,
                   listFail, plistFail, pListed, tlog, reqCalls>>

\* c.namespaceClient.Namespaces().Delete(pNamespace.Name, opts) and the counter
OrphanDelete(p) ==
    /\ pc = "delete"
    /\ p \in cur
    /\ \E d \in ApiDelete(p.Name, Preconditions(p)) :
        /\ faultsLeft' = Spend(d.err)
        /\ pstore' = d.store
        /\ numDeleted' = IF d.err = "nil" THEN numDeleted + 1 ELSE numDeleted
        /\ olog' = {IF e.p = p /\ e.del = "pending"
                        THEN [e EXCEPT !.del = d.err, !.pre = Preconditions(p)]
                        ELSE e : e \in olog}
    /\ delCalls' = With(delCalls, p.Name, Calls(delCalls, p.Name) + 1)
    /\ cur' = {}
    /\ pc' = "loop"
    /\ UNCHANGED <<ret, stopCh, nsSynced, tenants, vstore, nextUID, envLeft, clusterNames,
                   toSpawn, wg, tpc, vList, pNamespaces, numRequeued, active, cycles, touched,
                   listFail, plistFail, pListed, tlog, reqCalls>>

\* The loop over pNamespaces is over.
OrphanLoopEnd ==
    /\ pc = "loop"
    /\ pNamespaces = {}
    /\ pc' = "return"
    /\ UNCHANGED <<ret, stopCh, nsSynced, stores, cycleVars, counters, active, cycles,
                   touched, faults, ghosts>>

\* checkNamespaces returns to wait.Until
Return ==
    /\ pc = "return"
    /\ active' = active - 1
    /\ pc' = "timer"
    /\ UNCHANGED <<ret, stopCh, nsSynced, stores, cycleVars, counters, cycles,
                   touched, faults, ghosts>>

(***************************************************************************)
(* checkNamespacesOfTenantCluster, one goroutine per cluster name          *)
(***************************************************************************)
\* TenantList returning on an error without wg.Done()
TenantList_NoDone(t) ==
    /\ Alive
    /\ tpc[t] = "list"
    /\ \E l \in MultiClusterList(t) :
        /\ faultsLeft' = Spend(l.err)
        /\ IF l.err # "nil"
           THEN /\ listFail' = listFail \cup {t}
                /\ tpc' = [tpc EXCEPT ![t] = "done"]
                /\ UNCHANGED <<wg, vList>>
           ELSE /\ vList' = [vList EXCEPT ![t] = l.items]
                /\ tpc' = [tpc EXCEPT ![t] = "loop"]
                /\ UNCHANGED <<wg, listFail>>
    /\ UNCHANGED <<pc, ret, stopCh, nsSynced, stores, clusterNames, toSpawn, pNamespaces, cur,
                   counters, active, cycles, touched, plistFail, pListed, tlog, olog,
                   reqCalls, delCalls>>

\* c.multiClusterNamespaceController.List(clusterName); on an error the
\* function returns and the deferred wg.Done() runs.
TenantList(t) ==
    /\ Alive
    /\ tpc[t] = "list"
    /\ \E l \in MultiClusterList(t) :
        /\ faultsLeft' = Spend(l.err)
        /\ IF l.err # "nil"
           THEN /\ listFail' = listFail \cup {t}
                /\ tpc' = [tpc EXCEPT ![t] = "done"]
                /\ wg' = wg - 1
                /\ UNCHANGED vList
           ELSE /\ vList' = [vList EXCEPT ![t] = l.items]
                /\ tpc' = [tpc EXCEPT ![t] = "loop"]
                /\ UNCHANGED <<wg, listFail>>
    /\ UNCHANGED <<pc, ret, stopCh, nsSynced, stores, clusterNames, toSpawn, pNamespaces, cur,
                   counters, active, cycles, touched, plistFail, pListed, tlog, olog,
                   reqCalls, delCalls>>

\* c.multiClusterNamespaceController.RequeueObject(clusterName, &namespaceList.Items[i])
RequeueObject(t, v) == {"nil"} \cup {"Other" : x \in MayFail}

\* What the iteration does after the lookup r: "requeue" when the error is
\* NotFound; otherwise it goes on to pNamespace.Annotations, which is a nil
\* pointer dereference ("panic") when the lookup returned no object, and
\* else the comparison of the UIDs ("compare").
AfterLookup(r) ==
    IF r.err = "NotFound" THEN "requeue"
    ELSE IF r.obj = <<>> THEN "panic"
    ELSE "compare"

\* RequeueMissing without the RequeueObject call
RequeueMissing_Skip(t, v) ==
    /\ tlog' = tlog \cup {[v |-> v, res |-> "notfound", req |-> "none"]}
    /\ UNCHANGED <<faultsLeft, numRequeued, reqCalls>>

\* RequeueMissing remembering across cycles that it has requeued before
RequeueMissing_OncePerRun(t, v) ==
    IF numRequeued > 0
       THEN /\ tlog' = tlog \cup {[v |-> v, res |-> "notfound", req |-> "none"]}
            /\ UNCHANGED <<faultsLeft, numRequeued, reqCalls>>
       ELSE \E e \in RequeueObject(t, v) :
            /\ faultsLeft' = Spend(e)
            /\ numRequeued' = IF e = "nil" THEN numRequeued + 1 ELSE numRequeued
            /\ tlog' = tlog \cup {[v |-> v, res |-> "notfound",
                                    req |-> IF e = "nil" THEN "ok" ELSE "fail"]}
            /\ reqCalls' = With(reqCalls, <<t, v.Name>>, Calls(reqCalls, <<t, v.Name>>) + 1)

\* RequeueMissing counting the call whatever it returned
RequeueMissing_CountAlways(t, v) ==
    \E e \in RequeueObject(t, v) :
        /\ faultsLeft' = Spend(e)
        /\ numRequeued' = numRequeued + 1
        /\ tlog' = tlog \cup {[v |-> v, res |-> "notfound",
                                req |-> IF e = "nil" THEN "ok" ELSE "fail"]}
        /\ reqCalls' = With(reqCalls, <<t, v.Name>>, Calls(reqCalls, <<t, v.Name>>) + 1)

\* pNamespace not found: requeue the vNamespace, count it, continue.
RequeueMissing(t, v) ==
    \E e \in RequeueObject(t, v) :
        /\ faultsLeft' = Spend(e)
        /\ numRequeued' = IF e = "nil" THEN numRequeued + 1 ELSE numRequeued
        /\ tlog' = tlog \cup {[v |-> v, res |-> "notfound",
                                req |-> IF e = "nil" THEN "ok" ELSE "fail"]}
        /\ reqCalls' = With(reqCalls, <<t, v.Name>>, Calls(reqCalls, <<t, v.Name>>) + 1)

\* TenantLookup removing the pNamespace when the UIDs differ
TenantLookup_DeleteOnMismatch(t, v) ==
    /\ Alive
    /\ tpc[t] = "loop"
    /\ v \in vList[t]
    /\ vList' = [vList EXCEPT ![t] = @ \ {v}]
    /\ \E r \in NsListerGet(ToSuperMasterNamespace(t, v.Name)) :
        CASE AfterLookup(r) = "requeue" ->
                /\ RequeueMissing(t, v)
                /\ UNCHANGED <<pc, pstore>>
          [] AfterLookup(r) = "panic" ->
                /\ pc' = "crashed"
                /\ faultsLeft' = Spend(r.err)
                /\ tlog' = tlog \cup {[v |-> v, res |-> "error", req |-> "none"]}
                /\ UNCHANGED <<numRequeued, reqCalls, pstore>>
          [] OTHER ->
                /\ tlog' = tlog \cup {[v |-> v,
                                res |-> IF r.obj[1].LabelUID # v.UID THEN "mismatch" ELSE "match",
                                req |-> "none"]}
                /\ pstore' = IF r.obj[1].LabelUID # v.UID
                                 THEN Without(pstore, r.obj[1].Name) ELSE pstore
                /\ UNCHANGED <<pc, numRequeued, reqCalls, faultsLeft>>
    /\ UNCHANGED <<ret, stopCh, nsSynced, tenants, vstore, nextUID, envLeft, clusterNames,
                   toSpawn, wg, tpc, pNamespaces, cur, numDeleted, active, cycles, touched,
                   listFail, plistFail, pListed, olog, delCalls>>

\* One iteration of the loop over namespaceList.Items.
TenantLookup(t, v) ==
    /\ Alive
    /\ tpc[t] = "loop"
    /\ v \in vList[t]
    /\ vList' = [vList EXCEPT ![t] = @ \ {v}]
    /\ \E r \in NsListerGet(ToSuperMasterNamespace(t, v.Name)) :
        CASE AfterLookup(r) = "requeue" ->
                /\ RequeueMissing(t, v)
                /\ UNCHANGED pc
          [] AfterLookup(r) = "panic" ->
                /\ pc' = "crashed"
                /\ faultsLeft' = Spend(r.err)
                /\ tlog' = tlog \cup {[v |-> v, res |-> "error", req |-> "none"]}
                /\ UNCHANGED <<numRequeued, reqCalls>>
          [] OTHER ->
                /\ tlog' = tlog \cup {[v |-> v,
                                res |-> IF r.obj[1].LabelUID # v.UID THEN "mismatch" ELSE "match",
                                req |-> "none"]}
                /\ UNCHANGED <<pc, numRequeued, reqCalls, faultsLeft>>
    /\ UNCHANGED <<ret, stopCh, nsSynced, stores, clusterNames, toSpawn, wg, tpc, pNamespaces,
                   cur, numDeleted, active, cycles, touched, listFail, plistFail, pListed, olog,
                   delCalls>>

\* The loop is over: the function returns and the deferred wg.Done() runs.
TenantReturn(t) ==
    /\ Alive
    /\ tpc[t] = "loop"
    /\ vList[t] = {}
    /\ tpc' = [tpc EXCEPT ![t] = "done"]
    /\ wg' = wg - 1
    /\ UNCHANGED <<pc, ret, stopCh, nsSynced, stores, clusterNames, toSpawn, vList, pNamespaces,
                   cur, counters, active, cycles, touched, faults, ghosts>>

(***************************************************************************)
(* Specification                                                           *)
(***************************************************************************)
Env ==
    \/ \E t \in Tenants : AddTenant(t) \/ RemoveTenant(t)
    \/ \E k \in VKeys : CreateVirtual(k) \/ DeleteVirtual(k)
    \/ \E k \in VKeys, owner \in {"full", "partial"} : CreatePhysical(k, owner)
    \/ \E n \in PNames : RecreatePhysical(n)
    \/ \E n \in PNames : DeletePhysical(n)
    \/ CacheSync
    \/ CloseStopCh

Scheduler ==
    \/ Start
    \/ SyncReturns
    \/ UntilStopped
    \/ UntilCall
    \/ UntilTick
    \/ UntilStoppedInWait

Cycle ==
    \/ GetClusterNames
    \/ Spawn
    \/ Wait
    \/ ListPNamespaces
    \/ \E p \in pNamespaces : OrphanLookup(p)
    \/ \E p \in cur : OrphanDelete(p)
    \/ OrphanLoopEnd
    \/ Return

TenantScan ==
    \/ \E t \in Tenants : TenantList(t)
    \/ \E t \in Tenants : \E v \in vList[t] : TenantLookup(t, v)
    \/ \E t \in Tenants : TenantReturn(t)

Next == Env \/ Scheduler \/ Cycle \/ TenantScan

Spec == Init /\ [][Next]_vars

(***************************************************************************)
(* Properties                                                              *)
(***************************************************************************)
\* checkNamespaces has returned and the next call has not started
CycleDone == pc = "timer"

HasOwner(p) == ~OwnerMissing(GetVirtualOwner(p))

\* p claims an owner that the tenant master does not hold
Orphan(p) == HasOwner(p) /\ GetVirtualOwner(p) \notin DOMAIN vstore

\* p claims an owner that the tenant master holds under another UID
Mismatch(p) ==
    /\ HasOwner(p)
    /\ GetVirtualOwner(p) \in DOMAIN vstore
    /\ vstore[GetVirtualOwner(p)] # p.LabelUID

\* a Delete call was made and returned an error
DeleteFailed(e) == e.del \in {"Conflict", "NotFound", "Other"}

\* a Delete call was made and has returned
DeleteReturned(e) == e.del \in {"nil", "Conflict", "NotFound", "Other"}

ListedNames == {p.Name : p \in pListed}

NoFault == faultsLeft = MaxFaults

\* C1 as stated: a pNamespace with an owner annotation whose vNamespace does
\* not exist is gone at the end of the next cycle that runs, when the stores
\* were left alone during the cycle and no Delete was rejected (and no
\* collaborator call failed at all).
C1_Original ==
    (CycleDone /\ ~touched /\ NoFault /\ \A e \in olog : ~DeleteFailed(e))
        => \A p \in Range(pstore) : ~Orphan(p)

\* C1, amended: at the end of a cycle that read a non-empty set of cluster
\* names and listed the pNamespaces, with the stores left alone during the
\* cycle, an orphan pNamespace is left only if its owner lookup or its Delete
\* failed; and whenever the orphan scan's lookup returns NotFound for a listed
\* pNamespace, a Delete is issued for it.
C1_OrphanConvergence ==
    /\ (CycleDone /\ ~touched /\ ~NoClusters(clusterNames) /\ ~plistFail)
            => \A p \in Range(pstore) :
                 Orphan(p) => \E e \in olog : e.p = p /\ (e.res = "error" \/ DeleteFailed(e))
    /\ \A e \in olog : e.res = "notfound" => e.del # "none"

C1_Witness ==
    /\ CycleDone /\ ~touched /\ ~NoClusters(clusterNames)
    /\ \E e \in olog : e.res = "notfound" /\ e.del = "nil" /\ e.p.Name \notin DOMAIN pstore

\* C2: at the end of a cycle during which the stores were left alone, every
\* vNamespace of a cluster the cycle scanned (its List succeeded) whose
\* pNamespace did not exist has had RequeueObject called for it in that cycle;
\* and every lookup of a tenant scan that returned NotFound was followed by a
\* RequeueObject call.  This holds of every cycle, so it repeats until the
\* pNamespace appears.
C2_MissingConvergence ==
    /\ (CycleDone /\ ~touched)
            => \A k \in DOMAIN vstore :
                 (/\ k[1] \in clusterNames \ listFail
                  /\ ToSuperMasterNamespace(k[1], k[2]) \notin DOMAIN pstore \cup ListedNames)
                    => Calls(reqCalls, k) >= 1
    /\ \A e \in tlog :
          e.res = "notfound" => e.req # "none" /\ Calls(reqCalls, <<e.v.cluster, e.v.Name>>) >= 1

C2_Witness ==
    /\ CycleDone /\ ~touched /\ cycles = 2
    /\ \E k \in DOMAIN vstore :
          /\ ToSuperMasterNamespace(k[1], k[2]) \notin DOMAIN pstore \cup ListedNames
          /\ Calls(reqCalls, k) = 1

C5_DeleteStep == pc = "delete" /\ pc' = "loop"

C5_SafeDelete ==
    [][/\ C5_DeleteStep =>
            \A p \in cur :
              /\ (p.Name \notin DOMAIN pstore \/ pstore[p.Name].UID # p.UID)
                    => pstore' = pstore /\ numDeleted' = numDeleted
              /\ pstore' # pstore
                    => /\ p \in pListed
                       /\ p.Name \in DOMAIN pstore
                       /\ pstore[p.Name].UID = p.UID
                       /\ pstore' = Without(pstore, p.Name)
              /\ Calls(delCalls', p.Name) = 1
       /\ (pstore' # pstore /\ envLeft' = envLeft) => C5_DeleteStep]_vars

C5_Witness ==
    /\ CycleDone
    /\ \E e \in olog :
          /\ e.del = "Conflict"
          /\ e.p.Name \in DOMAIN pstore
          /\ pstore[e.p.Name].UID # e.p.UID
          /\ Calls(delCalls, e.p.Name) = 1

\* C6: while a tenant scan of the cycle is running, the checker goroutine is in
\* wg.Wait() and the orphan scan has done nothing (no listing, no lookup, no
\* Delete); once the orphan scan is under way every tenant scan of the cycle
\* has returned.
C6_JoinBarrier ==
    /\ (\E t \in Tenants : tpc[t] \in {"list", "loop"})
            => /\ pc \in {"wait", "crashed"}
               /\ pListed = {} /\ ~plistFail /\ olog = {} /\ delCalls = <<>>
    /\ pc \in {"list", "loop", "delete"} => \A t \in clusterNames : tpc[t] = "done"
    /\ wg = Cardinality({t \in Tenants : tpc[t] \in {"list", "loop"}})

C6_Witness ==
    /\ pc = "loop" /\ olog # {} /\ tlog # {}
    /\ Cardinality(clusterNames) = 2
    /\ \A t \in clusterNames : tpc[t] = "done"

\* C7 as stated: a lookup of a tenant scan that fails with an error other than
\* NotFound is only logged; the process does not crash.
C7_LookupErrorLogOnly == (\E e \in tlog : e.res = "error") => pc # "crashed"

\* C8: at most one execution of checkNamespaces is in progress, and while
\* wait.Until is at the top of its loop or waits for the timer none is: every
\* tenant scan has returned and the orphan scan is over.
C8_NoOverlap ==
    /\ active <= 1
    /\ (InCycle \/ pc = "return") => active = 1
    /\ pc \in {"init", "sync", "top", "timer", "exit"}
            => /\ active = 0
               /\ wg = 0
               /\ \A t \in Tenants : tpc[t] \in {"none", "done"}
               /\ pNamespaces = {} /\ cur = {}

C8_Witness == cycles = 2 /\ pc = "wait" /\ active = 1 /\ olog = {}

\* C9: once stopCh is closed with the cache not synced, StartPeriodChecker can
\* only return, it returns an error, and no cycle has run: nothing was listed,
\* looked up, requeued or deleted and the counters are zero.
C9_StopBeforeSync ==
    (stopCh /\ ~nsSynced)
        => /\ pc \in {"init", "sync", "exit"}
           /\ pc = "exit" => ret = "error"
           /\ pc = "sync" => ENABLED SyncReturns
           /\ cycles = 0 /\ active = 0
           /\ numDeleted = 0 /\ numRequeued = 0
           /\ tlog = {} /\ olog = {} /\ pListed = {} /\ ~plistFail /\ listFail = {}
           /\ reqCalls = <<>> /\ delCalls = <<>>
           /\ \A t \in Tenants : tpc[t] = "none"

C9_Witness == stopCh /\ ~nsSynced /\ pc = "exit" /\ ret = "error"

\* C10: a cycle that reads an empty set of cluster names returns at once:
\* GetClusterNames is followed by the return to wait.Until and the wait for the
\* timer, with no tenant scan spawned, nothing listed, no RequeueObject or
\* Delete call, and the stores and both counters unchanged by these steps.
C10_Quiet ==
    /\ tlog = {} /\ olog = {} /\ pListed = {} /\ ~plistFail /\ listFail = {}
    /\ reqCalls = <<>> /\ delCalls = <<>>
    /\ wg = 0
    /\ \A t \in Tenants : tpc[t] = "none"

C10_EmptyTenantsNoop ==
    /\ []((pc \in {"return", "timer"} /\ clusterNames = {}) => C10_Quiet)
    /\ [][/\ (pc = "GetClusterNames" /\ pc' # pc /\ tenants = {})
                => /\ pc' = "return"
                   /\ C10_Quiet'
                   /\ UNCHANGED <<numDeleted, numRequeued, pstore, vstore>>
          /\ (pc = "return" /\ pc' # pc /\ clusterNames = {})
                => /\ pc' = "timer"
                   /\ C10_Quiet'
                   /\ UNCHANGED <<numDeleted, numRequeued, pstore, vstore>>]_vars

C10_Witness ==
    /\ pc = "timer" /\ clusterNames = {} /\ cycles >= 1
    /\ \E p \in Range(pstore) : Orphan(p)
    /\ \E k \in DOMAIN vstore : ToSuperMasterNamespace(k[1], k[2]) \notin DOMAIN pstore

\* C11: the orphan scan calls Delete for a pNamespace only when both owner
\* annotations are non-empty and the lookup of the owner returned NotFound or a
\* vNamespace whose UID differs from the delegated UID annotation; a
\* pNamespace with a missing annotation, a lookup that failed with another
\* error, and a vNamespace found with the same UID are never followed by a
\* Delete.  Every Delete call of the cycle belongs to such an iteration.
C11_DeleteOnlyIf ==
    /\ \A e \in olog :
          /\ e.del # "none" => HasOwner(e.p) /\ e.res \in {"notfound", "mismatch"}
          /\ e.res \in {"skip", "error", "match"} => e.del = "none"
          /\ e.res = "skip" <=> ~HasOwner(e.p)
          /\ e.res = "match"
                => GetVirtualOwner(e.p) \in DOMAIN vstore \/ touched
    /\ \A n \in DOMAIN delCalls :
          \E e \in olog : e.p.Name = n /\ DeleteReturned(e)
    /\ \A p \in cur :
          \E e \in olog : e.p = p /\ e.del = "pending" /\ e.res \in {"notfound", "mismatch"}
    /\ pc = "delete" <=> cur # {}

C11_Witness ==
    /\ CycleDone
    /\ \E e \in olog : e.res = "skip" /\ e.del = "none"
    /\ \E e \in olog : e.res = "error" /\ e.del = "none" /\ HasOwner(e.p)
    /\ \E e \in olog : e.res = "match" /\ e.del = "none"
    /\ \E e \in olog : e.res = "mismatch" /\ e.del = "nil"

\* the orphan scan of the cycle is over: the listing failed, or every listed
\* pNamespace was visited and every Delete has returned
OrphanScanOver ==
    \/ plistFail
    \/ /\ pNamespaces = {} /\ cur = {}
       /\ \A p \in pListed : \E e \in olog : e.p = p /\ e.del # "pending"

\* C12: a tenant scan whose List failed has returned and released the
\* WaitGroup without a lookup, a RequeueObject call or a list of its own; the
\* failure does not crash the process (a crash comes only from a failed lookup
\* of a tenant scan), does not hold up wg.Wait(), and at the end of the cycle
\* the scans of the other cluster names have returned and the orphan scan is
\* over.
C12_ListFailureIsolated ==
    /\ listFail \subseteq clusterNames
    /\ \A t \in listFail :
          /\ tpc[t] = "done" /\ vList[t] = {}
          /\ \A e \in tlog : e.v.cluster # t
          /\ \A k \in DOMAIN reqCalls : k[1] # t
    /\ (listFail # {} /\ pc = "crashed") => \E e \in tlog : e.res = "error"
    /\ (pc = "wait" /\ \A t \in clusterNames : tpc[t] = "done") => ENABLED Wait
    /\ (CycleDone /\ listFail # {})
            => /\ \A t \in clusterNames : tpc[t] = "done" /\ vList[t] = {}
               /\ OrphanScanOver

C12_Witness ==
    /\ CycleDone /\ listFail # {} /\ ~plistFail
    /\ \E t \in listFail : \E k \in DOMAIN vstore : k[1] = t
    /\ \E e \in tlog : e.v.cluster \notin listFail /\ e.req = "ok"
    /\ \E e \in olog : e.del = "nil"

\* this step is a Delete call that returned nil
C13_DeleteSucceeded == \E e \in olog' \ olog : e.del = "nil"

\* this step is a RequeueObject call that returned nil
C13_RequeueSucceeded == \E e \in tlog' \ tlog : e.req = "ok"

\* C13: both counters start at zero; numDeletedOrphanSuperMasterNamespaces
\* grows by one in exactly the steps in which a Delete call returns nil, and
\* numRequeuedTenantNamespaces by one in exactly the steps in which a
\* RequeueObject call returns nil, whatever the interleaving of the tenant
\* scans; no other step, a failed call included, changes a counter.  So each
\* counter equals the number of successful calls made so far.
C13_CounterAccuracy ==
    /\ numDeleted = 0 /\ numRequeued = 0
    /\ [][/\ numDeleted' = IF C13_DeleteSucceeded THEN numDeleted + 1 ELSE numDeleted
          /\ numRequeued' = IF C13_RequeueSucceeded THEN numRequeued + 1 ELSE numRequeued]_vars

C13_Witness ==
    /\ CycleDone /\ cycles = 1
    /\ numRequeued = 0 /\ numDeleted = 2
    /\ \E e \in tlog : e.req = "fail"
    /\ Cardinality({e \in olog : e.del = "nil"}) = 2

\* the Delete calls of the cycle with their preconditions
C14_Deletes == {<<e.p.Name, e.pre>> : e \in {x \in olog : DeleteReturned(x)}}

\* the decisions that follow from the cluster names and the stores the cycle
\* observed: a requeue for every vNamespace of a scanned cluster without a
\* pNamespace, a Delete with the pNamespace's UID for every listed pNamespace
\* whose owner is missing or has another UID
C14_ExpectedRequeues ==
    {k \in DOMAIN vstore :
        k[1] \in clusterNames /\ ToSuperMasterNamespace(k[1], k[2]) \notin DOMAIN pstore \cup ListedNames}

C14_ExpectedDeletes == {<<p.Name, p.UID>> : p \in {q \in pListed : Orphan(q) \/ Mismatch(q)}}

\* C14: at the end of every cycle, the first and the later ones alike, in which
\* no listing or lookup failed and during which the stores were left alone,
\* the RequeueObject calls (one each) and the Delete calls with their
\* preconditions are exactly those that follow from the cluster names and the
\* store contents the cycle read: nothing carried over from an earlier cycle
\* adds or suppresses a decision.
C14_Idempotence ==
    (/\ CycleDone /\ ~touched
     /\ listFail = {} /\ ~plistFail /\ \A e \in olog : e.res # "error")
        => /\ DOMAIN reqCalls = C14_ExpectedRequeues
           /\ \A k \in DOMAIN reqCalls : reqCalls[k] = 1
           /\ C14_Deletes = C14_ExpectedDeletes
           /\ \A n \in DOMAIN delCalls : delCalls[n] = 1

\* the second cycle repeats the requeue of the first over unchanged stores
C14_Witness ==
    /\ CycleDone /\ ~touched /\ cycles = 2 /\ plistFail = FALSE /\ listFail = {}
    /\ envLeft = MaxEnv
    /\ numRequeued = 2
    /\ DOMAIN reqCalls = C14_ExpectedRequeues /\ reqCalls # <<>>
    /\ pListed = Range(pstore)

\* the states of the scheduler: 0 Uninitialized, 1 WaitingForSync, 2 Running,
\* 3 Stopped; 4 is the crashed process
Phase ==
    CASE pc = "init" -> 0
      [] pc = "sync" -> 1
      [] pc = "exit" -> 3
      [] pc = "crashed" -> 4
      [] OTHER -> 2

\* C15: checkNamespaces is called only with stopCh open at the check that
\* precedes the call; StartPeriodChecker returns only from WaitForCacheSync or
\* from wait.Until between two calls, never from inside a cycle, and while a
\* cycle is in flight with stopCh closed its goroutines can still take their
\* steps; the scheduler moves Uninitialized -> WaitingForSync -> Running ->
\* Stopped (or WaitingForSync -> Stopped, with an error), reaches Stopped only
\* with stopCh closed, and returns nil when it stops from Running.
C15_StopSemantics ==
    /\ []((stopCh /\ (InCycle \/ pc = "return")) => ENABLED (Cycle \/ TenantScan))
    /\ []((stopCh /\ pc = "top") => ~ENABLED UntilCall /\ ENABLED UntilStopped)
    /\ []((pc = "exit") => /\ stopCh /\ active = 0 /\ wg = 0 /\ ret \in {"nil", "error"}
                           /\ \A t \in Tenants : tpc[t] \in {"none", "done"})
    /\ [][/\ cycles' # cycles => ~stopCh /\ ~stopCh' /\ Phase = 2
          /\ Phase' # Phase
                => \/ Phase = 0 /\ Phase' = 1
                   \/ Phase = 1 /\ Phase' = 2 /\ nsSynced
                   \/ Phase = 1 /\ Phase' = 3 /\ stopCh /\ ret' = "error"
                   \/ Phase = 2 /\ Phase' = 3 /\ stopCh /\ ret' = "nil"
                                /\ pc \in {"top", "timer"}
                   \/ Phase = 2 /\ Phase' = 4 /\ \E e \in tlog' : e.res = "error"
          /\ (stopCh /\ (InCycle \/ pc = "return") /\ pc' # pc)
                => pc' \in {"spawn", "wait", "list", "loop", "delete", "return", "timer",
                            "crashed"}]_vars

\* stopCh was closed during a cycle, and the cycle has gone on to its end
C15_Witness ==
    /\ stopCh /\ pc = "return" /\ ~plistFail
    /\ OrphanScanOver
    /\ \E e \in olog : e.del = "nil"
    /\ \E e \in tlog : e.req = "ok"

\* C16 as stated: a panic raised inside a check cycle is recovered; the
\* scheduler stays in Running (or stops on stopCh) and the process goes on: no
\* step takes the scheduler from Running to the crashed process.
C16_PanicRecovered == [][Phase = 2 => Phase' \in {2, 3}]_vars

\* this step is a step of the checker, not of the environment
C17_CheckerStep == envLeft' = envLeft

\* this step is an iteration of a tenant scan
C17_TenantStep == tlog' # tlog /\ tlog' # {}

\* C17: no step of the checker changes a tenant master or the registry; a step
\* of the checker that changes the super master is the Delete call of the
\* orphan scan and removes one pNamespace, never adding or changing one; an
\* iteration of a tenant scan leaves the super master, the Delete calls and
\* the deleted counter as they are in each of its branches, and calls
\* RequeueObject in the NotFound branch only.
C17_Frame ==
    [][C17_CheckerStep =>
          /\ vstore' = vstore /\ tenants' = tenants
          /\ pstore' # pstore
                => /\ C5_DeleteStep
                   /\ \E p \in cur : p.Name \in DOMAIN pstore /\ pstore' = Without(pstore, p.Name)
          /\ \A n \in DOMAIN pstore' : n \in DOMAIN pstore /\ pstore'[n] = pstore[n]
          /\ C17_TenantStep
                => /\ pstore' = pstore /\ delCalls' = delCalls /\ numDeleted' = numDeleted
                   /\ \A e \in tlog' \ tlog :
                         /\ e.res \in {"notfound", "error", "mismatch", "match"}
                         /\ e.res # "notfound" => reqCalls' = reqCalls /\ numRequeued' = numRequeued
                         /\ e.res = "notfound" => reqCalls' # reqCalls]_vars

\* the tenant scans have found a missing and a stale pNamespace, and the super
\* master is as it was
C17_Witness ==
    /\ pc = "list" /\ cycles = 1 /\ envLeft = MaxEnv /\ numDeleted = 0
    /\ \E e \in tlog : e.res = "notfound" /\ e.req = "ok"
    /\ \E e \in tlog : /\ e.res = "mismatch"
                         /\ ToSuperMasterNamespace(e.v.cluster, e.v.Name) \in DOMAIN pstore
    /\ Cardinality(DOMAIN pstore) = 3

\* C18: in one cycle every listed pNamespace and every listed vNamespace is
\* visited at most once, a name gets at most one Delete call and a vNamespace
\* at most one RequeueObject call, whether the call failed or not: the calls
\* counted are exactly the iterations that made one.
C18_NoRetry ==
    /\ \A e, f \in olog : e.p.Name = f.p.Name => e = f
    /\ \A e, f \in tlog : (e.v.cluster = f.v.cluster /\ e.v.Name = f.v.Name) => e = f
    /\ \A p \in pListed :
          Calls(delCalls, p.Name) = Cardinality({e \in olog : e.p.Name = p.Name /\ DeleteReturned(e)})
    /\ \A k \in VKeys :
          Calls(reqCalls, k) =
              Cardinality({e \in tlog : <<e.v.cluster, e.v.Name>> = k /\ e.req \in {"ok", "fail"}})
    /\ DOMAIN delCalls \subseteq ListedNames
    /\ DOMAIN reqCalls \subseteq VKeys

\* a Delete failed, was not made again, and the pNamespace is left for the
\* next cycle
C18_Witness ==
    /\ CycleDone /\ cycles = 1
    /\ \E e \in olog : /\ e.del = "Other"
                         /\ Calls(delCalls, e.p.Name) = 1
                         /\ e.p.Name \in DOMAIN pstore
    /\ \E e \in tlog : e.req = "ok" /\ Calls(reqCalls, <<e.v.cluster, e.v.Name>>) = 1

\* C19 as stated: a cycle that has started goes on to its end whatever the
\* collaborator calls return: while checkNamespaces is in progress, the
\* checker goroutine or one of the tenant scans can take a step, so wg.Wait()
\* is never left waiting and the orphan scan is reached.
C19_CycleCompletes == active = 1 => ENABLED (Cycle \/ TenantScan)

\* C20: when the nsLister.List of the orphan scan fails, checkNamespaces
\* returns: the failing step goes to the return with the stores, both counters
\* and the requeues of the cycle's tenant scans as they were; from then to the
\* next call no pNamespace is visited, no Delete is called and no counter or
\* store is changed by the checker; and wait.Until goes on: the return, the
\* timer and, with stopCh open, the next call are enabled in turn.
C20_PListFailure ==
    /\ [](plistFail
            => /\ pc \in {"return", "timer", "top", "exit"}
               /\ olog = {} /\ delCalls = <<>> /\ pListed = {} /\ pNamespaces = {} /\ cur = {}
               /\ \A t \in clusterNames : tpc[t] = "done"
               /\ numRequeued >= Cardinality({e \in tlog : e.req = "ok"})
               /\ pc = "return" => ENABLED Return
               /\ pc = "timer" => ENABLED UntilTick
               /\ (pc = "top" /\ ~stopCh /\ cycles < MaxCycles) => ENABLED UntilCall)
    /\ [][/\ (~plistFail /\ plistFail')
                => /\ pc = "list" /\ pc' = "return"
                   /\ UNCHANGED <<numDeleted, numRequeued, pstore, vstore, tlog, reqCalls,
                                  delCalls, olog>>
          /\ (plistFail /\ plistFail' /\ C17_CheckerStep)
                => UNCHANGED <<numDeleted, numRequeued, pstore, vstore, tlog, reqCalls>>]_vars

\* the listing failed after a tenant scan requeued a vNamespace: the requeue
\* is counted, nothing was deleted, and the checker waits for the next tick
C20_Witness ==
    /\ plistFail /\ pc = "timer" /\ cycles = 1 /\ ~stopCh
    /\ numRequeued = 1 /\ numDeleted = 0
    /\ \E e \in tlog : e.req = "ok" /\ Calls(reqCalls, <<e.v.cluster, e.v.Name>>) = 1
    /\ \E p \in Range(pstore) : Orphan(p)

====
